---- MODULE Spec2Model ----
(***************************************************************************)
(* Model of github.com/nextmn/rfc9433: the bit-window codec                 *)
(* (internal/utils), the Args.Mob.Session codec and the two End.M.GTP4.E   *)
(* address codecs (encoding).                                              *)
(*                                                                         *)
(* A byte is an integer in 0..255, a byte slice or array a sequence of     *)
(* bytes (index 1 is Go's index 0).  Bit i of a buffer is counted from the *)
(* most significant bit of its first byte.                                 *)
(*                                                                         *)
(* A Go uint u is an integer: u itself when u is small, and u - 2^w (a     *)
(* negative integer) when u is within a few dozen of 2^w, w the width of   *)
(* uint.  With that representation uint addition is integer addition (the  *)
(* wrap past 2^w is the step from negative to non-negative), and the uint  *)
(* comparisons, division and remainder are UGreater, ULess and the         *)
(* definitions below.                                                      *)
(***************************************************************************)
EXTENDS Integers, Sequences, FiniteSets, TLC

VARIABLES
    op,      \* name of the last call
    recv,    \* the object the caller holds (constructed or being marshalled)
    n,       \* uint argument of the last call (startBit, endBit, prefixLength)
    k,       \* length argument of the last call
    inb,     \* byte input of the last call (address parsed, payload appended)
    pre,     \* caller's buffer before the last call
    buf,     \* caller's buffer after the last call
    err,     \* error returned by the last call ("nil" for none, "panic")
    out,     \* byte slice returned by the last call
    outNil,  \* TRUE when the returned slice is nil
    res      \* object returned by the last call

vars == <<op, recv, n, k, inb, pre, buf, err, out, outNil, res>>

-----------------------------------------------------------------------------
(* Bounds of the model *)

\* longest buffer handed to AppendToSlice
MaxBufLen == 3
\* longest payload handed to AppendToSlice
MaxPayLen == 2
\* uint arguments run up to this far past the last bit of the buffer
MaxOver == 2
\* and over the MaxWrap largest values of uint
MaxWrap == 2
\* FromIPv6 is asked for up to this many bytes more than an address holds
MaxExtraLen == 1

-----------------------------------------------------------------------------
(* Errors *)

Nil == "nil"
Panic == "panic"
ErrTooShortToMarshal == "too short to serialize"
ErrTooShortToParse == "too short to parse"
ErrPrefixLength == "wrong prefix length"
ErrOutOfRange == "out of range"

-----------------------------------------------------------------------------
(* Bytes and unsigned integers *)

Pow2(i) == 2 ^ i

\* b << s on a uint8
Shl(b, s) == (b * Pow2(s)) % 256

\* b >> s on a uint8
Shr(b, s) == b \div Pow2(s)

RECURSIVE OrBits(_, _, _)
OrBits(a, b, w) ==
    IF w = 0 THEN 0
    ELSE (IF a % 2 = 1 \/ b % 2 = 1 THEN 1 ELSE 0)
         + 2 * OrBits(a \div 2, b \div 2, w - 1)

\* a | b on uint8
Or(a, b) == OrBits(a, b, 8)

RECURSIVE AndBits(_, _, _)
AndBits(a, b, w) ==
    IF w = 0 THEN 0
    ELSE (IF a % 2 = 1 /\ b % 2 = 1 THEN 1 ELSE 0)
         + 2 * AndBits(a \div 2, b \div 2, w - 1)

\* a & b on uint8
And(a, b) == AndBits(a, b, 8)

\* a > b and a < b on uint, b small
UGreater(a, b) == a < 0 \/ a > b
ULess(a, b) == a >= 0 /\ a < b

\* make([]byte, len)
Zeros(len) == [i \in 1..len |-> 0]

\* s[lo:hi] (Go indices)
Slice(s, lo, hi) == [i \in 1..(hi - lo) |-> s[lo + i]]

\* copy(dst[at:], src), which copies min(len(dst)-at, len(src)) bytes
CopyAt(dst, at, src) ==
    [i \in 1..Len(dst) |->
        IF i > at /\ i - at <= Len(src) THEN src[i - at] ELSE dst[i]]

-----------------------------------------------------------------------------
(* internal/utils: the bit-window codec *)

\* the two passes of FromIPv6 for offset > 0; the second ranges over
\* ipv6[startByte+1 : startByte+length], one byte fewer than the first
FromIPv6Shifted(ipv6, startByte, offset, length) ==
    [i \in 1..length |->
        IF i <= length - 1
        THEN Or(Shl(ipv6[startByte + i], offset),
                Shr(ipv6[startByte + i + 1], 8 - offset))
        ELSE Shl(ipv6[startByte + i], offset)]

FromIPv6(ipv6, startBit, length) ==
    IF ULess(Len(ipv6), length)
    THEN [err |-> ErrTooShortToParse, val |-> <<>>, isNil |-> TRUE]
    ELSE IF UGreater(startBit + length * 8, 8 * Len(ipv6))
    THEN [err |-> ErrOutOfRange, val |-> <<>>, isNil |-> TRUE]
    ELSE IF startBit < 0
    \* startBit wrapped past the check: startByte is about 2^(w-3), the
    \* slice expression ipv6[startByte:startByte+length] panics
    THEN [err |-> Panic, val |-> <<>>, isNil |-> TRUE]
    ELSE LET startByte == startBit \div 8
             offset == startBit % 8
         IN  IF offset = 0
             THEN [err |-> Nil,
                   val |-> Slice(ipv6, startByte, startByte + length),
                   isNil |-> FALSE]
             ELSE IF startByte + 1 > startByte + length
             \* ipv6[startByte+1 : startByte+length] with length = 0
             THEN [err |-> Panic, val |-> <<>>, isNil |-> TRUE]
             ELSE [err |-> Nil,
                   val |-> FromIPv6Shifted(ipv6, startByte, offset, length),
                   isNil |-> FALSE]

\* AppendToSlice for offset > 0 without its second pass (the part of each
\* payload byte that belongs to the next buffer byte is dropped)
AppendShiftedNoCarry(slice, endByte, offset, appendThis) ==
    [i \in 1..Len(slice) |->
        IF i > endByte /\ i - endByte <= Len(appendThis)
        THEN Or(slice[i], Shr(appendThis[i - endByte], offset))
        ELSE slice[i]]

\* the two passes of AppendToSlice for offset > 0
AppendShifted(slice, endByte, offset, appendThis) ==
    LET right == [i \in 1..Len(slice) |->
                    IF i > endByte /\ i - endByte <= Len(appendThis)
                    THEN Or(slice[i], Shr(appendThis[i - endByte], offset))
                    ELSE slice[i]]
    IN  [i \in 1..Len(slice) |->
            IF i > endByte + 1 /\ i - endByte - 1 <= Len(appendThis)
            THEN Or(right[i], Shl(appendThis[i - endByte - 1], 8 - offset))
            ELSE right[i]]

AppendToSlice(slice, endBit, appendThis) ==
    IF endBit < 0
    \* endByte is about 2^(w-3): the sum exceeds any len(slice)
    THEN [err |-> ErrTooShortToMarshal, buf |-> slice]
    ELSE LET endByte == endBit \div 8
             offset == endBit % 8
             isOffset == IF offset > 0 THEN 1 ELSE 0
         IN  IF isOffset + endByte + Len(appendThis) > Len(slice)
             THEN [err |-> ErrTooShortToMarshal, buf |-> slice]
             ELSE IF offset = 0
             THEN [err |-> Nil, buf |-> CopyAt(slice, endByte, appendThis)]
             ELSE [err |-> Nil,
                   buf |-> AppendShifted(slice, endByte, offset, appendThis)]

-----------------------------------------------------------------------------
(* encoding: Args.Mob.Session *)

teidSizeByte == 4
teidPosByte == 1
qfiSizeBit == 6
qfiPosBit == 2
qfiPosByte == 0
qfiMask == Shr(255, 8 - qfiSizeBit)
rSizeBit == 1
rPosBit == 1
rPosByte == 0
rMask == Shr(255, 8 - rSizeBit)
uSizeBit == 1
uPosBit == 0
uPosByte == 0
uMask == Shr(255, 8 - uSizeBit)

\* A uint32 is the pair of its 16-bit halves: [hi |-> v >> 16, lo |-> v & 0xFFFF]

\* binary.LittleEndian.PutUint32
PutUint32LittleEndian(v) ==
    <<v.lo % 256, v.lo \div 256, v.hi % 256, v.hi \div 256>>

\* binary.BigEndian.PutUint32
PutUint32(v) == <<v.hi \div 256, v.hi % 256, v.lo \div 256, v.lo % 256>>

\* binary.BigEndian.Uint32
Uint32(b) == [hi |-> b[1] * 256 + b[2], lo |-> b[3] * 256 + b[4]]

\* binary.BigEndian.PutUint16
PutUint16(v) == <<v \div 256, v % 256>>

\* binary.BigEndian.Uint16
Uint16(b) == b[1] * 256 + b[2]

\* the zero ArgsMobSession, &ArgsMobSession{}
ZeroArgs == [qfi |-> 0, r |-> 0, u |-> 0, pduSessionID |-> [hi |-> 0, lo |-> 0]]

NewArgsMobSession(qfi, r, u, pduSessionID) ==
    [qfi |-> qfi,
     r |-> IF r THEN 1 ELSE 0,
     u |-> IF u THEN 1 ELSE 0,
     pduSessionID |-> pduSessionID]

QFI(a) == a.qfi
R(a) == a.r # 0
U(a) == a.u # 0
PDUSessionID(a) == a.pduSessionID
ArgsMarshalLen == 5

\* b with b[at] (Go index) replaced by v
SetByte(b, at, v) == [b EXCEPT ![at + 1] = v]

ArgsMarshalTo(a, b) ==
    IF Len(b) < ArgsMarshalLen
    THEN [err |-> ErrTooShortToMarshal, buf |-> b]
    ELSE LET b1 == SetByte(b, qfiPosByte,
                     Or(b[qfiPosByte + 1], Shl(And(qfiMask, a.qfi), qfiPosBit)))
             b2 == SetByte(b1, rPosByte,
                     Or(b1[rPosByte + 1], Shl(And(rMask, a.r), rPosBit)))
             b3 == SetByte(b2, uPosByte,
                     Or(b2[uPosByte + 1], Shl(And(uMask, a.u), uPosBit)))
         IN  [err |-> Nil,
              buf |-> CopyAt(b3, teidPosByte, PutUint32(a.pduSessionID))]

ArgsMarshal(a) ==
    LET m == ArgsMarshalTo(a, Zeros(ArgsMarshalLen))
    IN  IF m.err # Nil
        THEN [err |-> m.err, val |-> <<>>, isNil |-> TRUE]
        ELSE [err |-> Nil, val |-> m.buf, isNil |-> FALSE]

\* the receiver after UnmarshalBinary(b), and the error
UnmarshalBinary(a, b) ==
    IF Len(b) < 5
    THEN [err |-> ErrTooShortToParse, val |-> a]
    ELSE [err |-> Nil,
          val |-> [qfi |-> And(qfiMask, Shr(b[qfiPosByte + 1], qfiPosBit)),
                   r |-> And(rMask, Shr(b[rPosByte + 1], rPosBit)),
                   u |-> And(uMask, Shr(b[uPosByte + 1], uPosBit)),
                   pduSessionID |->
                       Uint32(Slice(b, teidPosByte, teidPosByte + teidSizeByte))]]

\* isNil: the returned pointer is nil
ParseArgsMobSession(b) ==
    LET m == UnmarshalBinary(ZeroArgs, b)
    IN  IF m.err # Nil
        THEN [err |-> m.err, val |-> ZeroArgs, isNil |-> TRUE]
        ELSE [err |-> Nil, val |-> m.val, isNil |-> FALSE]

-----------------------------------------------------------------------------
(* net/netip as the codecs use it.  A prefix is [addr, bits]: addr the 16  *)
(* bytes of Addr().As16(), bits the value of Bits(), -1 for an invalid     *)
(* prefix.                                                                 *)

InvalidPrefix == [addr |-> Zeros(16), bits |-> -1]

\* the byte at Go index i of a 16-byte address with all bits from nbits on cleared
MaskByte(b, i, nbits) ==
    IF 8 * (i + 1) <= nbits THEN b
    ELSE IF 8 * i >= nbits THEN 0
    ELSE And(b, 256 - Pow2(8 - (nbits - 8 * i)))

\* netip.PrefixFrom(netip.AddrFrom16(addr), nbits).Masked(), nbits an int
Masked(addr, nbits) ==
    IF nbits < 0 \/ nbits > 128
    THEN InvalidPrefix
    ELSE [addr |-> [i \in 1..16 |-> MaskByte(addr[i], i - 1, nbits)],
          bits |-> nbits]

\* int(prefixLength) of a uint: a uint of 2^w - j converts to -j
IntOf(u) == u

-----------------------------------------------------------------------------
(* encoding: MGTP4IPv6Dst *)

NoObj ==
    [kind |-> "nil", prefix |-> InvalidPrefix, ipv4 |-> Zeros(4), udp |-> 0,
     argsMobSession |-> ZeroArgs]

NewMGTP4IPv6Dst(prefix, ipv4, a) ==
    [kind |-> "dst", prefix |-> Masked(prefix.addr, prefix.bits),
     ipv4 |-> ipv4, udp |-> 0, argsMobSession |-> a]

ParseMGTP4IPv6Dst(ipv6Addr, prefixLength) ==
    LET prefix == Masked(ipv6Addr, IntOf(prefixLength))
        src == FromIPv6(ipv6Addr, prefixLength, 4)
    IN  IF src.err # Nil
        THEN [err |-> src.err, val |-> NoObj]
        ELSE LET argsMobSessionSlice == FromIPv6(ipv6Addr, prefixLength + 8 * 4, 5)
                 \* the error of FromIPv6 is dropped: err is declared again
                 \* by the next statement
                 argsMobSession == ParseArgsMobSession(argsMobSessionSlice.val)
             IN  IF argsMobSessionSlice.err = Panic
                 THEN [err |-> Panic, val |-> NoObj]
                 ELSE IF argsMobSession.err # Nil
                 THEN [err |-> argsMobSession.err, val |-> NoObj]
                 ELSE [err |-> Nil,
                       val |-> [kind |-> "dst", prefix |-> prefix,
                                ipv4 |-> Slice(src.val, 0, 4), udp |-> 0,
                                argsMobSession |-> argsMobSession.val]]

MGTP4MarshalLen == 16

DstMarshalTo(m, b) ==
    IF Len(b) < MGTP4MarshalLen
    THEN [err |-> ErrTooShortToMarshal, buf |-> b]
    ELSE LET b1 == CopyAt(b, 0, m.prefix.addr)
             bits == m.prefix.bits
         IN  IF bits = -1
             THEN [err |-> ErrPrefixLength, buf |-> b1]
             ELSE LET a1 == AppendToSlice(b1, bits, m.ipv4)
                  IN  IF a1.err # Nil
                      THEN [err |-> a1.err, buf |-> a1.buf]
                      ELSE LET argsMobSessionB == ArgsMarshal(m.argsMobSession)
                           IN  IF argsMobSessionB.err # Nil
                               THEN [err |-> argsMobSessionB.err, buf |-> a1.buf]
                               ELSE AppendToSlice(a1.buf, bits + 8 * 4,
                                                  argsMobSessionB.val)

DstMarshal(m) ==
    LET r == DstMarshalTo(m, Zeros(MGTP4MarshalLen))
    IN  IF r.err # Nil
        THEN [err |-> r.err, val |-> <<>>, isNil |-> TRUE]
        ELSE [err |-> Nil, val |-> r.buf, isNil |-> FALSE]

-----------------------------------------------------------------------------
(* encoding: MGTP4IPv6Src *)

ipv6LenEncodingSizeBit == 7
ipv6LenEncodingPosBit == 0
ipv6LenEncodingPosByte == 15
ipv6LenEncodingMask == Shr(255, 8 - ipv6LenEncodingSizeBit)

NewMGTP4IPv6Src(prefix, ipv4, udpPortNumber) ==
    [kind |-> "src", prefix |-> Masked(prefix.addr, prefix.bits),
     ipv4 |-> ipv4, udp |-> udpPortNumber, argsMobSession |-> ZeroArgs]

ParseMGTP4IPv6Src(addr, prefixLen) ==
    IF prefixLen = 0
    THEN [err |-> ErrPrefixLength, val |-> NoObj]
    ELSE IF UGreater(prefixLen + 8 * 4, 8 * 16)
    THEN [err |-> ErrOutOfRange, val |-> NoObj]
    ELSE LET prefix == Masked(addr, IntOf(prefixLen))
             src == FromIPv6(addr, prefixLen, 4)
         IN  IF src.err # Nil
             THEN [err |-> src.err, val |-> NoObj]
             ELSE [err |-> Nil,
                   val |-> [kind |-> "src", prefix |-> prefix,
                            ipv4 |-> Slice(src.val, 0, 4), udp |-> 0,
                            argsMobSession |-> ZeroArgs]]

ParseMGTP4IPv6SrcNextMN(addr) ==
    LET prefixLen ==
            And(ipv6LenEncodingMask,
                Shr(addr[ipv6LenEncodingPosByte + 1], ipv6LenEncodingPosBit))
        r == ParseMGTP4IPv6Src(addr, prefixLen)
    IN  IF r.err # Nil
        THEN [err |-> r.err, val |-> NoObj]
        ELSE IF UGreater(prefixLen + 8 * 4 + 16 + ipv6LenEncodingSizeBit, 8 * 16)
        THEN [err |-> ErrOutOfRange, val |-> NoObj]
        ELSE LET src == FromIPv6(addr, prefixLen + 8 * 4, 2)
             IN  IF src.err # Nil
                 THEN [err |-> src.err, val |-> NoObj]
                 ELSE [err |-> Nil,
                       val |-> [r.val EXCEPT !.udp = Uint16(Slice(src.val, 0, 2))]]

\* the prefix-length write that ends MarshalTo: b[15] = byte(bits)
WritePrefixLength(b, bits) == SetByte(b, ipv6LenEncodingPosByte, bits % 256)

\* MarshalTo up to and including the port, before the prefix-length write
SrcMarshalFields(m, b) ==
    LET b1 == CopyAt(b, 0, m.prefix.addr)
        bits == m.prefix.bits
    IN  IF bits = -1
        THEN [err |-> ErrPrefixLength, buf |-> b1]
        ELSE LET a1 == AppendToSlice(b1, bits, m.ipv4)
             IN  IF a1.err # Nil
                 THEN [err |-> a1.err, buf |-> a1.buf]
                 ELSE AppendToSlice(a1.buf, bits + 8 * 4, PutUint16(m.udp))

SrcMarshalTo(m, b) ==
    IF Len(b) < MGTP4MarshalLen
    THEN [err |-> ErrTooShortToMarshal, buf |-> b]
    ELSE LET f == SrcMarshalFields(m, b)
         IN  IF f.err # Nil
             THEN f
             ELSE [err |-> Nil, buf |-> WritePrefixLength(f.buf, m.prefix.bits)]

SrcMarshal(m) ==
    LET r == SrcMarshalTo(m, Zeros(MGTP4MarshalLen))
    IN  IF r.err # Nil
        THEN [err |-> r.err, val |-> <<>>, isNil |-> TRUE]
        ELSE [err |-> Nil, val |-> r.buf, isNil |-> FALSE]

-----------------------------------------------------------------------------
(* Inputs of the calls *)

AllOnes == [i \in 1..16 |-> 255]
PatternA ==
    <<63, 255, 165, 90, 1, 128, 195, 60, 15, 240, 129, 126, 85, 170, 153, 231>>
PatternB ==
    <<32, 1, 13, 184, 0, 0, 0, 1, 128, 0, 255, 0, 1, 35, 69, 103>>

\* [16]byte arguments
RawAddrs == {AllOnes, PatternA, PatternB}

\* uint arguments: every value up to top + MaxOver, and the MaxWrap largest
UintInputs(top) == (0..(top + MaxOver)) \cup {-j : j \in 1..MaxWrap}

\* s with every bit from position keep on cleared
KeepBits(s, keep) == [i \in 1..Len(s) |-> MaskByte(s[i], i - 1, keep)]

\* []byte buffers handed to AppendToSlice: written up to some bit, zero after
SliceInputs ==
    {KeepBits(Slice(a, 0, len), keep) :
        a \in {AllOnes, PatternA}, len \in 0..MaxBufLen,
        keep \in 0..(8 * MaxBufLen)}

PayBytes == {255, 165}
RECURSIVE SeqsUpTo(_, _)
SeqsUpTo(S, len) ==
    IF len = 0 THEN {<<>>}
    ELSE LET shorter == SeqsUpTo(S, len - 1)
         IN  shorter \cup {Append(p, b) : p \in shorter, b \in S}

\* payloads handed to AppendToSlice
Payloads == SeqsUpTo(PayBytes, MaxPayLen)

\* netip.Prefix arguments: any address with any length, and the invalid prefix
PrefixInputs ==
    {[addr |-> a, bits |-> b] : a \in {AllOnes, PatternA}, b \in 0..128}
    \cup {InvalidPrefix}

IPv4Inputs == {<<203, 0, 113, 1>>, <<255, 255, 255, 255>>}

IDInputs ==
    {[hi |-> 0, lo |-> 1], [hi |-> 65535, lo |-> 65535], [hi |-> 258, lo |-> 772]}

\* *ArgsMobSession arguments of NewMGTP4IPv6Dst
ArgsInputs ==
    {NewArgsMobSession(0, FALSE, FALSE, [hi |-> 0, lo |-> 1]),
     NewArgsMobSession(63, TRUE, TRUE, [hi |-> 65535, lo |-> 65535]),
     NewArgsMobSession(21, TRUE, FALSE, [hi |-> 258, lo |-> 772]),
     NewArgsMobSession(42, FALSE, TRUE, [hi |-> 65535, lo |-> 65535]),
     NewArgsMobSession(64, FALSE, FALSE, [hi |-> 0, lo |-> 1])}

UDPInputs == {0, 1, 12345, 65535}

\* buffers handed to the 16-byte MarshalTo: one byte short, exact, one over
CallerBufs(len) ==
    {Zeros(len - 1), Zeros(len), [i \in 1..len |-> 255],
     [i \in 1..(len + 1) |-> 170]}

\* []byte arguments of ParseArgsMobSession
ArgsWireInputs ==
    {Slice(a, at, at + len) : a \in RawAddrs, at \in 0..3, len \in 4..6}
    \cup {<<>>}

\* addresses with every value of the last byte
NextMNAddrs ==
    {SetByte(a, ipv6LenEncodingPosByte, v) : a \in {AllOnes, PatternA}, v \in 0..255}

-----------------------------------------------------------------------------
(* The calls.  Each action is one call of the API from a caller that holds  *)
(* at most one object (recv) and the bytes the last call returned (out).    *)
(* A caller starts (Idle) with a constructor or with a call on bytes it     *)
(* received, marshals the object it constructed, and parses the bytes that  *)
(* Marshal returned.                                                        *)

Idle ==
    /\ op = "init" /\ recv = NoObj /\ n = 0 /\ k = 0 /\ inb = <<>>
    /\ pre = <<>> /\ buf = <<>> /\ err = Nil /\ out = <<>> /\ outNil = TRUE
    /\ res = NoObj

Init == Idle

\* the variables a call neither reads nor writes
NoBuffer == pre' = <<>> /\ buf' = <<>>
NoBytesOut == out' = <<>> /\ outNil' = TRUE
NoArgs == n' = 0 /\ k' = 0 /\ inb' = <<>>

CallFromIPv6 ==
    /\ Idle
    /\ \E ipv6 \in RawAddrs, startBit \in UintInputs(128),
       length \in 0..(16 + MaxExtraLen) :
        LET r == FromIPv6(ipv6, startBit, length)
        IN  /\ op' = "FromIPv6"
            /\ inb' = ipv6 /\ n' = startBit /\ k' = length
            /\ err' = r.err /\ out' = r.val /\ outNil' = r.isNil
            /\ recv' = NoObj /\ res' = NoObj /\ NoBuffer

CallAppendToSlice ==
    /\ Idle
    /\ \E slice \in SliceInputs, endBit \in UintInputs(8 * MaxBufLen),
       appendThis \in Payloads :
        LET r == AppendToSlice(slice, endBit, appendThis)
        IN  /\ op' = "AppendToSlice"
            /\ pre' = slice /\ n' = endBit /\ inb' = appendThis /\ k' = 0
            /\ err' = r.err /\ buf' = r.buf
            /\ recv' = NoObj /\ res' = NoObj /\ NoBytesOut

NextBits == CallFromIPv6 \/ CallAppendToSlice

SpecBits == Init /\ [][NextBits]_vars

ArgsObj(a) == [NoObj EXCEPT !.kind = "args", !.argsMobSession = a]

CallNewArgsMobSession ==
    /\ Idle
    /\ \E qfi \in 0..255, r \in BOOLEAN, u \in BOOLEAN, id \in IDInputs :
        /\ op' = "NewArgsMobSession"
        /\ recv' = ArgsObj(NewArgsMobSession(qfi, r, u, id))
        /\ res' = recv'
        /\ err' = Nil /\ NoArgs /\ NoBuffer /\ NoBytesOut

CallArgsMarshal ==
    /\ op = "NewArgsMobSession"
    /\ LET r == ArgsMarshal(recv.argsMobSession)
       IN  /\ op' = "ArgsMarshal"
           /\ err' = r.err /\ out' = r.val /\ outNil' = r.isNil
           /\ res' = NoObj /\ NoArgs /\ NoBuffer /\ UNCHANGED recv

CallArgsMarshalTo ==
    /\ op = "NewArgsMobSession"
    /\ \E b \in CallerBufs(ArgsMarshalLen) :
        LET r == ArgsMarshalTo(recv.argsMobSession, b)
        IN  /\ op' = "ArgsMarshalTo"
            /\ pre' = b /\ buf' = r.buf /\ err' = r.err
            /\ res' = NoObj /\ NoArgs /\ NoBytesOut /\ UNCHANGED recv

\* MarshalTo of another ArgsMobSession into the buffer the last MarshalTo
\* filled
CallArgsMarshalToAgain ==
    /\ op = "ArgsMarshalTo" /\ err = Nil
    /\ \E a \in ArgsInputs :
        LET r == ArgsMarshalTo(a, buf)
        IN  /\ op' = "ArgsMarshalTo"
            /\ recv' = ArgsObj(a)
            /\ pre' = buf /\ buf' = r.buf /\ err' = r.err
            /\ res' = NoObj /\ NoArgs /\ NoBytesOut

\* ParseArgsMobSession on bytes received
CallParseArgsMobSession ==
    /\ Idle
    /\ \E b \in ArgsWireInputs :
        LET r == ParseArgsMobSession(b)
        IN  /\ op' = "ParseArgsMobSession"
            /\ inb' = b /\ n' = 0 /\ k' = 0
            /\ err' = r.err
            /\ res' = IF r.isNil THEN NoObj ELSE ArgsObj(r.val)
            /\ recv' = NoObj /\ NoBuffer /\ NoBytesOut

\* ParseArgsMobSession on the bytes Marshal just returned
CallParseArgsMarshalled ==
    /\ op = "ArgsMarshal" /\ err = Nil
    /\ LET r == ParseArgsMobSession(out)
       IN  /\ op' = "ParseArgsMobSession"
           /\ inb' = out /\ n' = 0 /\ k' = 0
           /\ err' = r.err
           /\ res' = IF r.isNil THEN NoObj ELSE ArgsObj(r.val)
           /\ NoBuffer /\ UNCHANGED <<recv, out, outNil>>

NextArgs ==
    \/ CallNewArgsMobSession
    \/ CallArgsMarshal
    \/ CallArgsMarshalTo
    \/ CallArgsMarshalToAgain
    \/ CallParseArgsMobSession
    \/ CallParseArgsMarshalled

SpecArgs == Init /\ [][NextArgs]_vars

CallNewMGTP4IPv6Dst ==
    /\ Idle
    /\ \E prefix \in PrefixInputs, ipv4 \in IPv4Inputs, a \in ArgsInputs :
        /\ op' = "NewMGTP4IPv6Dst"
        /\ recv' = NewMGTP4IPv6Dst(prefix, ipv4, a)
        /\ res' = recv'
        /\ err' = Nil /\ NoArgs /\ NoBuffer /\ NoBytesOut

CallDstMarshal ==
    /\ op = "NewMGTP4IPv6Dst"
    /\ LET r == DstMarshal(recv)
       IN  /\ op' = "DstMarshal"
           /\ err' = r.err /\ out' = r.val /\ outNil' = r.isNil
           /\ res' = NoObj /\ NoArgs /\ NoBuffer /\ UNCHANGED recv

CallDstMarshalTo ==
    /\ op = "NewMGTP4IPv6Dst"
    /\ \E b \in CallerBufs(MGTP4MarshalLen) :
        LET r == DstMarshalTo(recv, b)
        IN  /\ op' = "DstMarshalTo"
            /\ pre' = b /\ buf' = r.buf /\ err' = r.err
            /\ res' = NoObj /\ NoArgs /\ NoBytesOut /\ UNCHANGED recv

\* ParseMGTP4IPv6Dst on an address received
CallParseMGTP4IPv6Dst ==
    /\ Idle
    /\ \E ipv6Addr \in RawAddrs, prefixLength \in UintInputs(128) :
        LET r == ParseMGTP4IPv6Dst(ipv6Addr, prefixLength)
        IN  /\ op' = "ParseMGTP4IPv6Dst"
            /\ inb' = ipv6Addr /\ n' = prefixLength /\ k' = 0
            /\ err' = r.err /\ res' = r.val
            /\ recv' = NoObj /\ NoBuffer /\ NoBytesOut

\* ParseMGTP4IPv6Dst on the address Marshal just returned, with the length
\* of the prefix it was built from
CallParseDstMarshalled ==
    /\ op = "DstMarshal" /\ err = Nil
    /\ LET r == ParseMGTP4IPv6Dst(out, recv.prefix.bits)
       IN  /\ op' = "ParseMGTP4IPv6Dst"
           /\ inb' = out /\ n' = recv.prefix.bits /\ k' = 0
           /\ err' = r.err /\ res' = r.val
           /\ NoBuffer /\ UNCHANGED <<recv, out, outNil>>

NextDst ==
    \/ CallNewMGTP4IPv6Dst
    \/ CallDstMarshal
    \/ CallDstMarshalTo
    \/ CallParseMGTP4IPv6Dst
    \/ CallParseDstMarshalled

SpecDst == Init /\ [][NextDst]_vars

CallNewMGTP4IPv6Src ==
    /\ Idle
    /\ \E prefix \in PrefixInputs, ipv4 \in IPv4Inputs, udp \in UDPInputs :
        /\ op' = "NewMGTP4IPv6Src"
        /\ recv' = NewMGTP4IPv6Src(prefix, ipv4, udp)
        /\ res' = recv'
        /\ err' = Nil /\ NoArgs /\ NoBuffer /\ NoBytesOut

CallSrcMarshal ==
    /\ op = "NewMGTP4IPv6Src"
    /\ LET r == SrcMarshal(recv)
       IN  /\ op' = "SrcMarshal"
           /\ err' = r.err /\ out' = r.val /\ outNil' = r.isNil
           /\ res' = NoObj /\ NoArgs /\ NoBuffer /\ UNCHANGED recv

CallSrcMarshalTo ==
    /\ op = "NewMGTP4IPv6Src"
    /\ \E b \in CallerBufs(MGTP4MarshalLen) :
        LET r == SrcMarshalTo(recv, b)
        IN  /\ op' = "SrcMarshalTo"
            /\ pre' = b /\ buf' = r.buf /\ err' = r.err
            /\ res' = NoObj /\ NoArgs /\ NoBytesOut /\ UNCHANGED recv

\* ParseMGTP4IPv6Src on an address received
CallParseMGTP4IPv6Src ==
    /\ Idle
    /\ \E addr \in RawAddrs, prefixLen \in UintInputs(128) :
        LET r == ParseMGTP4IPv6Src(addr, prefixLen)
        IN  /\ op' = "ParseMGTP4IPv6Src"
            /\ inb' = addr /\ n' = prefixLen /\ k' = 0
            /\ err' = r.err /\ res' = r.val
            /\ recv' = NoObj /\ NoBuffer /\ NoBytesOut

\* ParseMGTP4IPv6SrcNextMN on an address received
CallParseMGTP4IPv6SrcNextMN ==
    /\ Idle
    /\ \E addr \in NextMNAddrs :
        LET r == ParseMGTP4IPv6SrcNextMN(addr)
        IN  /\ op' = "ParseMGTP4IPv6SrcNextMN"
            /\ inb' = addr /\ n' = 0 /\ k' = 0
            /\ err' = r.err /\ res' = r.val
            /\ recv' = NoObj /\ NoBuffer /\ NoBytesOut

\* ParseMGTP4IPv6SrcNextMN on the address Marshal just returned
CallParseSrcMarshalled ==
    /\ op = "SrcMarshal" /\ err = Nil
    /\ LET r == ParseMGTP4IPv6SrcNextMN(out)
       IN  /\ op' = "ParseMGTP4IPv6SrcNextMN"
           /\ inb' = out /\ n' = 0 /\ k' = 0
           /\ err' = r.err /\ res' = r.val
           /\ NoBuffer /\ UNCHANGED <<recv, out, outNil>>

NextSrc ==
    \/ CallNewMGTP4IPv6Src
    \/ CallSrcMarshal
    \/ CallSrcMarshalTo
    \/ CallParseMGTP4IPv6Src
    \/ CallParseMGTP4IPv6SrcNextMN
    \/ CallParseSrcMarshalled

SpecSrc == Init /\ [][NextSrc]_vars

Next == NextBits \/ NextArgs \/ NextDst \/ NextSrc

Spec == Init /\ [][Next]_vars

-----------------------------------------------------------------------------
(* Properties *)

\* bit i (0 = most significant bit of the first byte) of a byte sequence
Bit(s, i) == (s[(i \div 8) + 1] \div Pow2(7 - (i % 8))) % 2

\* the true value of uint u exceeds every bit position of a buffer
Huge(u) == u < 0

\* every bit of s from position from on is zero
TailZero(s, from) ==
    \A i \in 0..(8 * Len(s) - 1) : i >= from => Bit(s, i) = 0

\* ceil(endBit/8) + len(payload) <= len(buffer)
Fits(slice, endBit, payload) ==
    /\ ~Huge(endBit)
    /\ (endBit + 7) \div 8 + Len(payload) <= Len(slice)

\* C6: for every 16-byte buffer, startBit and lengthBytes >= 1 with
\* startBit + 8*lengthBytes <= 128, FromIPv6 succeeds and returns lengthBytes
\* bytes whose bit j is bit startBit + j of the buffer, for every j, the low
\* bits of the last byte included.
C6_WindowExact ==
    (op = "FromIPv6" /\ k >= 1 /\ ~Huge(n) /\ n + 8 * k <= 128) =>
        /\ err = Nil
        /\ ~outNil
        /\ Len(out) = k
        /\ \A j \in 0..(8 * k - 1) : Bit(out, j) = Bit(inb, n + j)

\* C7: AppendToSlice on a buffer that is zero from endBit on, with
\* ceil(endBit/8) + len(payload) <= len(buffer), succeeds; afterwards the
\* payload bits stand at endBit .. endBit + 8*len(payload) - 1, every bit
\* before endBit is unchanged and every bit after the payload is still zero.
\* When ceil(endBit/8) + len(payload) > len(buffer) it returns
\* ErrTooShortToMarshal and the buffer is unchanged.
C7_AppendExact ==
    op = "AppendToSlice" =>
        /\ (TailZero(pre, n) /\ Fits(pre, n, inb)) =>
            /\ err = Nil
            /\ Len(buf) = Len(pre)
            /\ \A i \in 0..(8 * Len(buf) - 1) :
                Bit(buf, i) =
                    IF i < n THEN Bit(pre, i)
                    ELSE IF i < n + 8 * Len(inb) THEN Bit(inb, i - n)
                    ELSE 0
        /\ ~Fits(pre, n, inb) => (err = ErrTooShortToMarshal /\ buf = pre)

\* C7's case: a payload of two bytes appended at a bit offset that is not a
\* multiple of 8, after bits that are set, and with room to spare
C7_Witness ==
    /\ op = "AppendToSlice" /\ err = Nil
    /\ n % 8 = 3 /\ Len(inb) = 2 /\ inb[2] = 165
    /\ TailZero(pre, n) /\ Bit(pre, n - 1) = 1
    /\ 8 * Len(pre) > n + 16

\* C3: for qfi in 0..63, Marshal of NewArgsMobSession(qfi, r, u, id) returns
\* exactly 5 bytes, byte 0 = qfi*4 + (r ? 2 : 0) + (u ? 1 : 0) and bytes 1..4
\* the id in big-endian order; (0, false, false, 1) gives 00 00 00 00 01 and
\* (63, true, true, 0xFFFFFFFF) gives FF FF FF FF FF.
C3_WireLayout ==
    (op = "ArgsMarshal" /\ recv.argsMobSession.qfi <= 63) =>
        LET a == recv.argsMobSession
        IN  /\ err = Nil /\ ~outNil
            /\ Len(out) = 5
            /\ \A i \in 1..5 : out[i] \in 0..255
            /\ out[1] = a.qfi * 4 + (IF R(a) THEN 2 ELSE 0) + (IF U(a) THEN 1 ELSE 0)
            /\ out[2] * 256 + out[3] = a.pduSessionID.hi
            /\ out[4] * 256 + out[5] = a.pduSessionID.lo
            /\ a = NewArgsMobSession(0, FALSE, FALSE, [hi |-> 0, lo |-> 1])
                => out = <<0, 0, 0, 0, 1>>
            /\ a = NewArgsMobSession(63, TRUE, TRUE, [hi |-> 65535, lo |-> 65535])
                => out = <<255, 255, 255, 255, 255>>

\* C3's case: a session with every field set, and an id whose four bytes differ
C3_Witness ==
    /\ op = "ArgsMarshal" /\ err = Nil
    /\ recv.argsMobSession =
        NewArgsMobSession(21, TRUE, FALSE, [hi |-> 258, lo |-> 772])
    /\ out = <<86, 1, 2, 3, 4>>

\* C5: every ArgsMobSession obtained from NewArgsMobSession (any uint8 qfi)
\* or from ParseArgsMobSession has QFI() in 0..63, and the QFI read back
\* after Marshal and ParseArgsMobSession is QFI() of the original.
C5_QFIRange ==
    /\ (op = "NewArgsMobSession") => QFI(res.argsMobSession) \in 0..63
    /\ (op = "ParseArgsMobSession" /\ err = Nil) =>
        QFI(res.argsMobSession) \in 0..63
    /\ (op = "ParseArgsMobSession" /\ err = Nil /\ recv.kind = "args") =>
        QFI(res.argsMobSession) = QFI(recv.argsMobSession)

\* the uint16 that the 16 bits of s from bit position at on spell
Bits16(s, at) ==
    LET RECURSIVE val(_)
        val(j) == IF j = 0 THEN 0 ELSE 2 * val(j - 1) + Bit(s, at + j - 1)
    IN  val(16)

\* C1: for a MGTP4IPv6Dst x built from a prefix of length L in 0..56, any
\* IPv4 bytes and an ArgsMobSession with qfi in 0..63, Marshal(x) succeeds
\* and ParseMGTP4IPv6Dst(Marshal(x), L) succeeds and returns the masked
\* prefix, the IPv4 bytes and the QFI, R, U and PDUSessionID of x.
C1_DstRoundTrip ==
    LET x == recv
        fits == x.kind = "dst" /\ x.prefix.bits \in 0..56
                    /\ x.argsMobSession.qfi \in 0..63
    IN  /\ (op = "DstMarshal" /\ fits) => err = Nil
        /\ (op = "ParseMGTP4IPv6Dst" /\ fits) =>
            /\ err = Nil
            /\ res.prefix = x.prefix
            /\ res.ipv4 = x.ipv4
            /\ QFI(res.argsMobSession) = QFI(x.argsMobSession)
            /\ R(res.argsMobSession) = R(x.argsMobSession)
            /\ U(res.argsMobSession) = U(x.argsMobSession)
            /\ PDUSessionID(res.argsMobSession) = PDUSessionID(x.argsMobSession)

\* C8: whenever the extraction of the 5-byte argument block inside
\* ParseMGTP4IPv6Dst(addr, L) fails, ParseMGTP4IPv6Dst returns that error;
\* for every L in 57..128 the error returned is ErrOutOfRange.
C8_DstParseForwardsError ==
    (op = "ParseMGTP4IPv6Dst" /\ n \in 57..128) =>
        /\ FromIPv6(inb, n + 32, 5).err = ErrOutOfRange
        /\ err = ErrOutOfRange

\* C10: whenever MarshalTo of MGTP4IPv6Dst or MGTP4IPv6Src returns an error,
\* the caller's buffer holds the bytes it held before the call, and Marshal
\* returns no byte slice.
C10_NoPartialMarshal ==
    /\ (op \in {"DstMarshalTo", "SrcMarshalTo"} /\ err # Nil) => buf = pre
    /\ (op \in {"DstMarshal", "SrcMarshal"} /\ err # Nil) => outNil

\* C2: for a MGTP4IPv6Src x built from a prefix of length L in 1..73, any
\* IPv4 bytes and any UDP port, Marshal(x) succeeds and
\* ParseMGTP4IPv6SrcNextMN(Marshal(x)) succeeds and returns the prefix
\* length, the masked prefix, the IPv4 bytes and the UDP port of x.
C2_SrcRoundTrip ==
    LET x == recv
        fits == x.kind = "src" /\ x.prefix.bits \in 1..73
    IN  /\ (op = "SrcMarshal" /\ fits) => err = Nil
        /\ (op = "ParseMGTP4IPv6SrcNextMN" /\ fits) =>
            /\ err = Nil
            /\ res.prefix.bits = x.prefix.bits
            /\ res.prefix = x.prefix
            /\ res.ipv4 = x.ipv4
            /\ res.udp = x.udp

\* C4: ParseMGTP4IPv6Src(addr, L) returns ErrPrefixLength if L = 0,
\* ErrOutOfRange if L + 32 > 128, and otherwise succeeds with UDP port 0;
\* ParseMGTP4IPv6SrcNextMN(addr), L the low 7 bits of byte 15, returns
\* ErrPrefixLength if L = 0, ErrOutOfRange if L is in 74..127, and otherwise
\* succeeds with prefix length L.  No other error is returned, and no result
\* together with an error.
C4_SrcParseClasses ==
    /\ op = "ParseMGTP4IPv6Src" =>
        /\ err = IF n = 0 THEN ErrPrefixLength
                 ELSE IF Huge(n) \/ n + 32 > 128 THEN ErrOutOfRange
                 ELSE Nil
        /\ err = Nil => (res.kind = "src" /\ res.udp = 0 /\ res.prefix.bits = n)
        /\ err # Nil => res = NoObj
    /\ op = "ParseMGTP4IPv6SrcNextMN" =>
        LET L == inb[16] % 128
        IN  /\ err = IF L = 0 THEN ErrPrefixLength
                     ELSE IF L + 32 + 16 + 7 > 128 THEN ErrOutOfRange
                     ELSE Nil
            /\ err = Nil => (res.kind = "src" /\ res.prefix.bits = L)
            /\ err # Nil => res = NoObj

\* C9: in every successful MGTP4IPv6Src Marshal the prefix-length write
\* changes nothing but bits 0..6 of byte 15: bit 7 of byte 15 (address bit
\* 120) keeps the value the prefix, IPv4 and port steps gave it, and for
\* every prefix length L with L + 32 + 16 + 7 <= 128 the 16 bits at bit
\* offset L + 32 of the output are the UDP port.
C9_LengthWriteFrame ==
    (op = "SrcMarshal" /\ err = Nil) =>
        LET before == SrcMarshalFields(recv, Zeros(MGTP4MarshalLen)).buf
            L == recv.prefix.bits
        IN  /\ \A i \in 0..120 : Bit(out, i) = Bit(before, i)
            /\ L + 32 + 16 + 7 <= 128 => Bits16(out, L + 32) = recv.udp

\* C11: after any sequence of successful ArgsMobSession.MarshalTo calls on
\* the same buffer of length >= 5, whatever the buffer held at first, the
\* first 5 bytes of the buffer are what Marshal() returns for the value of
\* the last call, and the bytes from index 5 on are unchanged.
C11_MarshalToOverwrites ==
    (op = "ArgsMarshalTo" /\ err = Nil) =>
        /\ Len(buf) = Len(pre)
        /\ Slice(buf, 0, ArgsMarshalLen) = ArgsMarshal(recv.argsMobSession).val
        /\ \A i \in (ArgsMarshalLen + 1)..Len(buf) : buf[i] = pre[i]

====
